---- MODULE Spec2Model ----
(***************************************************************************)
(* A model of slipscheme (src/slipscheme.go): loading JSON schema          *)
(* documents, qualifying and resolving their $ref nodes, assigning names,  *)
(* synthesising Go type declarations and writing each declaration once.    *)
(*                                                                         *)
(* Go strings are modelled as sequences of one-character strings, so that  *)
(* strings.Split, strings.HasSuffix, strings.Title, sort.Strings and the   *)
(* concatenations of the source are computed character by character.       *)
(* *Schema pointers are node identifiers into a heap; 0 is the nil         *)
(* pointer.  A Go map is a record [nil, m]: nil tells a nil map from an    *)
(* empty one, m maps the keys to node identifiers.                         *)
(***************************************************************************)
EXTENDS Integers, Sequences, FiniteSets, TLC

VARIABLES
    input,                \* the command line and the files it names
    pc,                   \* position of main: "load", "parse", "emit", "done", "failed"
    err,                  \* how the run ended: "", or the error/panic raised
    schemas,              \* SchemaProcessor.schemas: reference key -> root node
    heap,                 \* the Schema structs allocated so far
    toParse,              \* keys the first loop of Process has not visited yet
    targetSchemas,        \* Process's targetSchemas slice
    emitIdx,              \* position of the second loop of Process in it
    anonymousObjectCount, \* the package-level counter
    cfg,                  \* the flags Stdout, Fmt, Overwrite
    disk,                 \* names of the .go files present in OutputDir
    processed,            \* SchemaProcessor.processed
    written,              \* what reached a file or stdout: <<typeName, code>>
    requests              \* every call of writeGoCode: <<typeName, code>>

vars == <<input, pc, err, schemas, heap, toParse, targetSchemas, emitIdx,
          anonymousObjectCount, cfg, disk, processed, written, requests>>

----------------------------------------------------------------------------
(* Bounds of the model *)

\* deepest chain of nested calls of resolveRefs the model follows before it
\* reports the recursion as unbounded (Go aborts at its stack limit)
StackLimit == 14

\* number of calls of writeGoCode in the emission specification
MaxRequests == 4

\* longest reference chain the resolution claim is checked for
MaxChain == 3

----------------------------------------------------------------------------
(* Strings *)

LowerSeq == <<"a", "b", "c", "d", "e", "f", "g", "h", "i", "j", "k", "l", "m", "n", "o", "p", "q", "r", "s", "t", "u", "v", "w", "x", "y", "z">>

UpperSeq == <<"A", "B", "C", "D", "E", "F", "G", "H", "I", "J", "K", "L", "M", "N", "O", "P", "Q", "R", "S", "T", "U", "V", "W", "X", "Y", "Z">>

DigitSeq == <<"0", "1", "2", "3", "4", "5", "6", "7", "8", "9">>

\* the characters of the model in byte order
Ascii == <<" ", "#", "*", ".", "/", "0", "1", "2", "3", "4", "5", "6", "7", "8", "9", "A", "B", "C", "D", "E", "F", "G", "H", "I", "J", "K", "L", "M", "N", "O", "P", "Q", "R", "S", "T", "U", "V", "W", "X", "Y", "Z", "[", "]", "_", "a", "b", "c", "d", "e", "f", "g", "h", "i", "j", "k", "l", "m", "n", "o", "p", "q", "r", "s", "t", "u", "v", "w", "x", "y", "z", "{", "}">>

Ord(c) == CHOOSE i \in 1..Len(Ascii) : Ascii[i] = c

IsLower(c) == \E i \in 1..Len(LowerSeq) : LowerSeq[i] = c

IsUpper(c) == \E i \in 1..Len(UpperSeq) : UpperSeq[i] = c

IsDigit(c) == \E i \in 1..Len(DigitSeq) : DigitSeq[i] = c

IsAlnum(c) == IsLower(c) \/ IsUpper(c) \/ IsDigit(c)

ToUpperChar(c) ==
    IF IsLower(c) THEN UpperSeq[CHOOSE i \in 1..Len(LowerSeq) : LowerSeq[i] = c] ELSE c

ToUpper(s) == [i \in 1..Len(s) |-> ToUpperChar(s[i])]

HasPrefix(s, p) == Len(s) >= Len(p) /\ SubSeq(s, 1, Len(p)) = p

HasSuffix(s, p) == Len(s) >= Len(p) /\ SubSeq(s, Len(s) - Len(p) + 1, Len(s)) = p

TrimPrefix(s, p) == IF HasPrefix(s, p) THEN SubSeq(s, Len(p) + 1, Len(s)) ELSE s

TrimSuffix(s, p) == IF HasSuffix(s, p) THEN SubSeq(s, 1, Len(s) - Len(p)) ELSE s

Contains(s, c) == \E i \in 1..Len(s) : s[i] = c

\* a < b for Go strings (byte-wise comparison)
LexLess(a, b) ==
    \E i \in 1..(Len(b)) :
        /\ i <= Len(a) + 1
        /\ SubSeq(a, 1, i - 1) = SubSeq(b, 1, i - 1)
        /\ (i = Len(a) + 1 \/ Ord(a[i]) < Ord(b[i]))

\* strings.Split(s, "/")
RECURSIVE Split(_)
Split(s) ==
    IF ~Contains(s, "/") THEN <<s>>
    ELSE LET i == CHOOSE j \in 1..Len(s) : s[j] = "/" /\ \A k \in 1..(j - 1) : s[k] # "/"
         IN  <<SubSeq(s, 1, i - 1)>> \o Split(SubSeq(s, i + 1, Len(s)))

\* strings.Map of camelCase: every character that is not alphanumeric becomes a space
MapAlnum(s) == [i \in 1..Len(s) |-> IF IsAlnum(s[i]) THEN s[i] ELSE " "]

\* strings.Title: the letter that starts a word is upper-cased; letters,
\* digits and the underscore continue a word, every other character ends it
IsSeparator(c) == ~(IsAlnum(c) \/ c = "_")

Title(s) ==
    [i \in 1..Len(s) |->
        IF i = 1 \/ IsSeparator(s[i - 1]) THEN ToUpperChar(s[i]) ELSE s[i]]

\* strings.Replace(s, " ", "", -1)
RECURSIVE RemoveSpaces(_)
RemoveSpaces(s) ==
    IF s = <<>> THEN <<>>
    ELSE IF Head(s) = " " THEN RemoveSpaces(Tail(s))
    ELSE <<Head(s)>> \o RemoveSpaces(Tail(s))

\* fmt.Sprintf("%v", n) for an int n >= 0
RECURSIVE Itoa(_)
Itoa(n) == IF n < 10 THEN <<DigitSeq[n + 1]>> ELSE Itoa(n \div 10) \o <<DigitSeq[(n % 10) + 1]>>

\* the string constants of the source and of the input files
sHash == <<"#">>

sSlash == <<"/">>

sStar == <<"*">>

sSpace == <<" ">>

sDefinitions == <<"d", "e", "f", "i", "n", "i", "t", "i", "o", "n", "s">>

sProperties == <<"p", "r", "o", "p", "e", "r", "t", "i", "e", "s">>

sPatternProperties == <<"p", "a", "t", "t", "e", "r", "n", "P", "r", "o", "p", "e", "r", "t", "i", "e", "s">>

sItems == <<"i", "t", "e", "m", "s">>

sAnonymousObject == <<"A", "n", "o", "n", "y", "m", "o", "u", "s", "O", "b", "j", "e", "c", "t">>

sItem == <<"I", "t", "e", "m">>

sMap == <<"M", "a", "p">>

sEs == <<"e", "s">>

sS == <<"s">>

sId == <<"I", "d">>

sUrl == <<"U", "r", "l">>

sJson == <<"J", "s", "o", "n">>

sXml == <<"X", "m", "l">>

sBool == <<"b", "o", "o", "l">>

sInt == <<"i", "n", "t">>

sFloat64 == <<"f", "l", "o", "a", "t", "6", "4">>

sInterface == <<"i", "n", "t", "e", "r", "f", "a", "c", "e", "{", "}">>

sString == <<"s", "t", "r", "i", "n", "g">>

sMapStringInterface == <<"m", "a", "p", "[", "s", "t", "r", "i", "n", "g", "]", "i", "n", "t", "e", "r", "f", "a", "c", "e", "{", "}">>

sMapString == <<"m", "a", "p", "[", "s", "t", "r", "i", "n", "g", "]">>

sSlice == <<"[", "]">>

kWidget == <<"W", "i", "d", "g", "e", "t">>

kAlias == <<"A", "l", "i", "a", "s">>

kAlias2 == <<"A", "l", "i", "a", "s", "2">>

kId == <<"i", "d">>

kCount == <<"c", "o", "u", "n", "t">>

kW == <<"w">>

kZ == <<"z">>

kList == <<"l", "i", "s", "t">>

kP == <<"p">>

kX == <<"x">>

kTag == <<"T", "a", "g">>

kUserId == <<"u", "s", "e", "r", "_", "i", "d">>

titleA == <<"A">>

titleB == <<"B">>

titleD == <<"D">>

pathA == <<"a", ".", "j", "s", "o", "n">>

pathA2 == <<"s", "/", "a", ".", "j", "s", "o", "n">>

pathB == <<"b", ".", "j", "s", "o", "n">>

pathC == <<"c", ".", "j", "s", "o", "n">>

pathD == <<"d", ".", "j", "s", "o", "n">>

keyA == <<"a", ".", "j", "s", "o", "n">>

keyB == <<"b", ".", "j", "s", "o", "n">>

keyC == <<"c", ".", "j", "s", "o", "n">>

keyD == <<"d", ".", "j", "s", "o", "n">>

refShortWidget == <<"a", "#", "/", "d", "e", "f", "i", "n", "i", "t", "i", "o", "n", "s", "/", "W", "i", "d", "g", "e", "t">>

refWidget == <<"a", ".", "j", "s", "o", "n", "#", "/", "d", "e", "f", "i", "n", "i", "t", "i", "o", "n", "s", "/", "W", "i", "d", "g", "e", "t">>

refAlias2 == <<"a", ".", "j", "s", "o", "n", "#", "/", "d", "e", "f", "i", "n", "i", "t", "i", "o", "n", "s", "/", "A", "l", "i", "a", "s", "2">>

refList == <<"a", ".", "j", "s", "o", "n", "#", "/", "p", "r", "o", "p", "e", "r", "t", "i", "e", "s", "/", "l", "i", "s", "t">>

refSelf == <<"#", "/", "p", "r", "o", "p", "e", "r", "t", "i", "e", "s", "/", "w">>

refRootC == <<"c", ".", "j", "s", "o", "n", "#">>

refRootB == <<"b", ".", "j", "s", "o", "n", "#">>

refMapEnd == <<"a", ".", "j", "s", "o", "n", "#", "/", "d", "e", "f", "i", "n", "i", "t", "i", "o", "n", "s">>

refMissing == <<"a", ".", "j", "s", "o", "n", "#", "/", "d", "e", "f", "i", "n", "i", "t", "i", "o", "n", "s", "/", "M", "i", "s", "s", "i", "n", "g">>

refMissingThenPoint == <<"a", ".", "j", "s", "o", "n", "#", "/", "d", "e", "f", "i", "n", "i", "t", "i", "o", "n", "s", "/", "M", "i", "s", "s", "i", "n", "g", "/", "p", "r", "o", "p", "e", "r", "t", "i", "e", "s", "/", "#">>

refPoint == <<"a", ".", "j", "s", "o", "n", "#", "/", "#">>

refNoHash == <<"d", "e", "f", "i", "n", "i", "t", "i", "o", "n", "s", "/", "W", "i", "d", "g", "e", "t">>

refNoFile == <<"z", "z", "#", "/", "d", "e", "f", "i", "n", "i", "t", "i", "o", "n", "s", "/", "W", "i", "d", "g", "e", "t">>

refLocalWidget == <<"#", "/", "d", "e", "f", "i", "n", "i", "t", "i", "o", "n", "s", "/", "W", "i", "d", "g", "e", "t">>

refLocalAlias == <<"#", "/", "d", "e", "f", "i", "n", "i", "t", "i", "o", "n", "s", "/", "A", "l", "i", "a", "s">>

----------------------------------------------------------------------------
(* The Schema struct and the heap *)

NilMap == [nil |-> TRUE, m |-> <<>>]

MapOf(f) == [nil |-> FALSE, m |-> f]

Keys(mp) == DOMAIN mp.m

\* a freshly decoded Schema: every field json.Unmarshal did not see is zero
Schema(title, type, defs, props, pats, ref, items) ==
    [Title |-> title, ID |-> <<>>, Type |-> type, Description |-> <<>>,
     Definitions |-> defs, Properties |-> props, PatternProperties |-> pats,
     Ref |-> ref, Items |-> items]

Name(node) == IF node.Title = <<>> THEN node.ID ELSE node.Title

\* the keys of a map in ascending order
RECURSIVE Ascending(_)
Ascending(S) ==
    IF S = {} THEN <<>>
    ELSE LET least == CHOOSE k \in S : \A o \in S \ {k} : LexLess(k, o)
         IN  <<least>> \o Ascending(S \ {least})

Reverse(s) == [i \in 1..Len(s) |-> s[Len(s) + 1 - i]]

\* Go leaves the order of `for k, v := range m` open; the model iterates a
\* map upwards or downwards, which is every order of a map of two keys
Orders == {"asc", "desc"}

Range(mp, ord) == IF ord = "asc" THEN Ascending(Keys(mp)) ELSE Reverse(Ascending(Keys(mp)))

\* the children of a node in the order the passes visit them
Children(node, ord) ==
    [i \in 1..Len(Range(node.Definitions, ord)) |->
        node.Definitions.m[Range(node.Definitions, ord)[i]]]
    \o [i \in 1..Len(Range(node.Properties, ord)) |->
        node.Properties.m[Range(node.Properties, ord)[i]]]
    \o [i \in 1..Len(Range(node.PatternProperties, ord)) |->
        node.PatternProperties.m[Range(node.PatternProperties, ord)[i]]]
    \o (IF node.Items # 0 THEN <<node.Items>> ELSE <<>>)

ChildSet(node) ==
    {node.Definitions.m[k] : k \in Keys(node.Definitions)}
    \cup {node.Properties.m[k] : k \in Keys(node.Properties)}
    \cup {node.PatternProperties.m[k] : k \in Keys(node.PatternProperties)}
    \cup (IF node.Items # 0 THEN {node.Items} ELSE {})

\* the nodes reachable from a set of nodes through child pointers
RECURSIVE ReachFrom(_, _, _)
ReachFrom(h, done, frontier) ==
    IF frontier = {} THEN done
    ELSE LET next == UNION {ChildSet(h[n]) : n \in frontier} \ (done \cup frontier)
         IN  ReachFrom(h, done \cup frontier, next)

Reach(h, n) == ReachFrom(h, {}, {n})

----------------------------------------------------------------------------
(* The input: the files the command line can name, as json.Unmarshal        *)
(* decodes them.  rB, rD and tB are the parts of b.json and d.json the      *)
(* model varies.                                                            *)

\* a.json: {"definitions": {"Widget": {"type": "object", "properties":
\*            {"id": {"type": "string"}, "count": {"type": "integer"}}}}}
FileA1 ==
    (1 :> Schema(<<>>, "ANY", MapOf(kWidget :> 2), NilMap, NilMap, <<>>, 0))
    @@ (2 :> Schema(<<>>, "OBJECT", NilMap, MapOf((kId :> 3) @@ (kCount :> 4)), NilMap, <<>>, 0))
    @@ (3 :> Schema(<<>>, "STRING", NilMap, NilMap, NilMap, <<>>, 0))
    @@ (4 :> Schema(<<>>, "INTEGER", NilMap, NilMap, NilMap, <<>>, 0))

\* s/a.json: {"title": "A", "type": "object",
\*   "definitions": {"Widget": (as above),
\*                   "Alias": {"$ref": "#/definitions/Widget"},
\*                   "Alias2": {"$ref": "#/definitions/Alias"}},
\*   "properties": {"list": {"type": "array", "items": {"type": "string"}}}}
FileA2 ==
    (11 :> Schema(titleA, "OBJECT",
                  MapOf((kWidget :> 12) @@ (kAlias :> 15) @@ (kAlias2 :> 16)),
                  MapOf(kList :> 17), NilMap, <<>>, 0))
    @@ (12 :> Schema(<<>>, "OBJECT", NilMap, MapOf((kId :> 13) @@ (kCount :> 14)), NilMap, <<>>, 0))
    @@ (13 :> Schema(<<>>, "STRING", NilMap, NilMap, NilMap, <<>>, 0))
    @@ (14 :> Schema(<<>>, "INTEGER", NilMap, NilMap, NilMap, <<>>, 0))
    @@ (15 :> Schema(<<>>, "ANY", NilMap, NilMap, NilMap, refLocalWidget, 0))
    @@ (16 :> Schema(<<>>, "ANY", NilMap, NilMap, NilMap, refLocalAlias, 0))
    @@ (17 :> Schema(<<>>, "ARRAY", NilMap, NilMap, NilMap, <<>>, 18))
    @@ (18 :> Schema(<<>>, "STRING", NilMap, NilMap, NilMap, <<>>, 0))

\* b.json: {"title": tB, "type": "object", "properties": {"w": {"$ref": rB}}}
FileB1(rB, tB) ==
    (21 :> Schema(tB, "OBJECT", NilMap, MapOf(kW :> 22), NilMap, <<>>, 0))
    @@ (22 :> Schema(<<>>, "ANY", NilMap, NilMap, NilMap, rB, 0))

\* b.json: as above, the node w also holding
\*   "properties": {"z": {"$ref": "zz#/definitions/Widget"}}
FileB2(rB, tB) ==
    (25 :> Schema(tB, "OBJECT", NilMap, MapOf(kW :> 26), NilMap, <<>>, 0))
    @@ (26 :> Schema(<<>>, "ANY", NilMap, MapOf(kZ :> 27), NilMap, rB, 0))
    @@ (27 :> Schema(<<>>, "ANY", NilMap, NilMap, NilMap, refNoFile, 0))

\* c.json: {"type": "array", "items": {"type": "string"}}
FileC ==
    (31 :> Schema(<<>>, "ARRAY", NilMap, NilMap, NilMap, <<>>, 32))
    @@ (32 :> Schema(<<>>, "STRING", NilMap, NilMap, NilMap, <<>>, 0))

\* d.json: {"title": "D", "type": "object", "properties": {"p": {"type": "array",
\*   "items": {"type": "object", "patternProperties": {"x": {"$ref": rD}}}}}}
FileD(rD) ==
    (41 :> Schema(titleD, "OBJECT", NilMap, MapOf(kP :> 42), NilMap, <<>>, 0))
    @@ (42 :> Schema(<<>>, "ARRAY", NilMap, NilMap, NilMap, <<>>, 43))
    @@ (43 :> Schema(<<>>, "OBJECT", NilMap, NilMap, MapOf(kX :> 44), <<>>, 0))
    @@ (44 :> Schema(<<>>, "ANY", NilMap, NilMap, NilMap, rD, 0))

FileNames == {"A1", "A2", "B1", "B2", "C", "D"}

\* the path given on the command line, and the root json.Unmarshal returns
FilePath(f) ==
    CASE f = "A1" -> pathA [] f = "A2" -> pathA2 [] f \in {"B1", "B2"} -> pathB
      [] f = "C" -> pathC [] f = "D" -> pathD

FileRoot(f) ==
    CASE f = "A1" -> 1 [] f = "A2" -> 11 [] f = "B1" -> 21 [] f = "B2" -> 25
      [] f = "C" -> 31 [] f = "D" -> 41

FileNodes(f, inp) ==
    CASE f = "A1" -> FileA1 [] f = "A2" -> FileA2
      [] f = "B1" -> FileB1(inp.rB, inp.tB) [] f = "B2" -> FileB2(inp.rB, inp.tB)
      [] f = "C" -> FileC [] f = "D" -> FileD(inp.rD)

\* the references b.json is given
RefsB ==
    {refShortWidget, refWidget, refAlias2, refList, refSelf, refRootC, refRootB,
     refMapEnd, refMissing, refMissingThenPoint, refPoint, refNoHash, refNoFile}

\* the references d.json is given
RefsD == {refWidget, refLocalWidget, refNoFile, refPoint, refMissingThenPoint, refNoHash}

\* the command lines: at most one file of each name, in this order, and
\* b.json and d.json not together
FileLists ==
    {a \o b \o c \o d :
        a \in {<<>>, <<"A1">>, <<"A2">>}, b \in {<<>>, <<"B1">>, <<"B2">>},
        c \in {<<>>, <<"C">>}, d \in {<<>>, <<"D">>}}
    \ ({<<>>} \cup {a \o b \o c \o <<"D">> :
                     a \in {<<>>, <<"A1">>, <<"A2">>}, b \in {<<"B1">>, <<"B2">>},
                     c \in {<<>>, <<"C">>}})

Has(files, f) == \E i \in 1..Len(files) : files[i] = f

Inputs ==
    {inp \in [files : FileLists, rB : RefsB, rD : RefsD, tB : {<<>>, titleB}] :
        /\ (~(Has(inp.files, "B1") \/ Has(inp.files, "B2")) =>
                inp.rB = refWidget /\ inp.tB = <<>>)
        /\ (~Has(inp.files, "D") => inp.rD = refWidget)}

----------------------------------------------------------------------------
(* Load: LoadSchema and its two passes *)

\* the name cut at its first dot
getReferenceNameNoExt(file) ==
    LET name == Split(file)[Len(Split(file))]
    IN  IF Contains(name, ".")
        THEN SubSeq(name, 1, (CHOOSE i \in 1..Len(name) :
                                name[i] = "." /\ \A j \in 1..(i - 1) : name[j] # ".") - 1)
        ELSE name

\* path.Split(file): the part after the last slash
getReferenceName(file) == Split(file)[Len(Split(file))]

RECURSIVE updateDefinitionTitles(_, _)
RECURSIVE updateDefinitionTitlesRange(_, _, _)
updateDefinitionTitlesRange(h, n, keys) ==
    IF keys = <<>> THEN h
    ELSE LET k == Head(keys)
             v == h[n].Definitions.m[k]
             h1 == IF Name(h[v]) = <<>> THEN [h EXCEPT ![v].Title = k] ELSE h
         IN  updateDefinitionTitlesRange(updateDefinitionTitles(h1, v), n, Tail(keys))

updateDefinitionTitles(h, n) ==
    IF h[n].Definitions.nil THEN h
    ELSE updateDefinitionTitlesRange(h, n, Range(h[n].Definitions, "asc"))

fixReferenceAlways(ref, reference) == IF ref # <<>> THEN reference \o ref ELSE ref

\* lines 269-274: a reference whose first path segment is "#" gets the
\* reference key of its document in front
fixReference(ref, reference) ==
    IF ref # <<>> /\ Len(Split(ref)) > 0 /\ Split(ref)[1] = sHash
    THEN reference \o ref
    ELSE ref

RECURSIVE updateReferencePath(_, _, _)
RECURSIVE updateReferencePathEach(_, _, _)
updateReferencePathEach(h, nodes, reference) ==
    IF nodes = <<>> THEN h
    ELSE updateReferencePathEach(updateReferencePath(h, Head(nodes), reference),
                                 Tail(nodes), reference)

updateReferencePath(h, n, reference) ==
    LET h1 == updateReferencePathEach(h, Children(h[n], "asc"), reference)
    IN  [h1 EXCEPT ![n].Ref = fixReference(h1[n].Ref, reference)]

\* json.Unmarshal, then the two passes; the decoded nodes join the heap
LoadSchema(h, data, root, reference) ==
    updateReferencePath(updateDefinitionTitles(h @@ data, root), root, reference)

\* the loop of Load over the files, from the i-th on
RECURSIVE LoadFrom(_, _, _)
LoadFrom(st, inp, i) ==
    IF i > Len(inp.files) THEN st
    ELSE LET f == inp.files[i]
             reference == getReferenceName(FilePath(f))
             h == LoadSchema(st.heap, FileNodes(f, inp), FileRoot(f), reference)
         IN  LoadFrom([heap |-> h, schemas |-> (reference :> FileRoot(f)) @@ st.schemas],
                      inp, i + 1)

Loaded(inp) == LoadFrom([heap |-> <<>>, schemas |-> <<>>], inp, 1)

\* Load(files); the files of the model exist, can be read and hold valid JSON
Load ==
    /\ pc = "load"
    /\ heap' = Loaded(input).heap
    /\ schemas' = Loaded(input).schemas
    /\ toParse' = DOMAIN Loaded(input).schemas
    /\ pc' = "parse"
    /\ UNCHANGED <<input, err, targetSchemas, emitIdx, anonymousObjectCount, cfg, disk,
                   processed, written, requests>>

----------------------------------------------------------------------------
(* resolveRefs *)

\* the value of the variable ctx (an interface{}): a *Schema (id, 0 when
\* nil) or a map[string]*Schema (mp); stop is the error or panic that ended
\* the walk, "nil" while there is none
SchemaCtx(id) == [kind |-> "schema", id |-> id, mp |-> NilMap, stop |-> "nil"]

MapCtx(mp) == [kind |-> "map", id |-> 0, mp |-> mp, stop |-> "nil"]

StopCtx(why) == [kind |-> "schema", id |-> 0, mp |-> NilMap, stop |-> why]

\* ctx.(*Schema).<field>: the assertion panics on a map, the selection on nil
IsSchemaPtr(ctx) == ctx.kind = "schema" /\ ctx.id # 0

\* a bare "#" is passed over
walkPartSkipPoint(S, h, ctx, part) ==
    IF part = sHash THEN ctx
    ELSE IF HasSuffix(part, sHash) THEN
        LET referenceName == SubSeq(part, 1, Len(part) - 1)
        IN  IF referenceName \in DOMAIN S THEN SchemaCtx(S[referenceName])
            ELSE StopCtx("invalid reference file")
    ELSE IF part = sDefinitions THEN
        IF IsSchemaPtr(ctx) THEN MapCtx(h[ctx.id].Definitions) ELSE StopCtx("panic")
    ELSE IF part = sProperties THEN
        IF IsSchemaPtr(ctx) THEN MapCtx(h[ctx.id].Properties) ELSE StopCtx("panic")
    ELSE IF part = sPatternProperties THEN
        IF IsSchemaPtr(ctx) THEN MapCtx(h[ctx.id].PatternProperties) ELSE StopCtx("panic")
    ELSE IF part = sItems THEN
        IF IsSchemaPtr(ctx) THEN SchemaCtx(h[ctx.id].Items) ELSE StopCtx("panic")
    ELSE IF ctx.kind = "map" THEN
        \* cast[part]: a missing key (or a nil map) gives a nil *Schema
        SchemaCtx(IF part \in Keys(ctx.mp) THEN ctx.mp.m[part] ELSE 0)
    ELSE ctx

\* lines 307-328: one path segment
walkPart(S, h, ctx, part) ==
    IF part = sHash THEN StopCtx("invalid reference point")
    ELSE IF HasSuffix(part, sHash) THEN
        LET referenceName == SubSeq(part, 1, Len(part) - 1)
        IN  IF referenceName \in DOMAIN S THEN SchemaCtx(S[referenceName])
            ELSE StopCtx("invalid reference file")
    ELSE IF part = sDefinitions THEN
        IF IsSchemaPtr(ctx) THEN MapCtx(h[ctx.id].Definitions) ELSE StopCtx("panic")
    ELSE IF part = sProperties THEN
        IF IsSchemaPtr(ctx) THEN MapCtx(h[ctx.id].Properties) ELSE StopCtx("panic")
    ELSE IF part = sPatternProperties THEN
        IF IsSchemaPtr(ctx) THEN MapCtx(h[ctx.id].PatternProperties) ELSE StopCtx("panic")
    ELSE IF part = sItems THEN
        IF IsSchemaPtr(ctx) THEN SchemaCtx(h[ctx.id].Items) ELSE StopCtx("panic")
    ELSE IF ctx.kind = "map" THEN
        \* cast[part]: a missing key (or a nil map) gives a nil *Schema
        SchemaCtx(IF part \in Keys(ctx.mp) THEN ctx.mp.m[part] ELSE 0)
    ELSE ctx

\* lines 306-329: the loop over the segments
RECURSIVE walk(_, _, _, _)
walk(S, h, ctx, parts) ==
    IF parts = <<>> \/ ctx.stop # "nil" THEN ctx
    ELSE walk(S, h, walkPart(S, h, ctx, Head(parts)), Tail(parts))

\* line 331, *schema = *cast: the fields of the struct are copied, so the
\* maps and the Items pointer of the two nodes are the same afterwards
assignKeepRef(h, n, t) == [h EXCEPT ![n] = [h[t] EXCEPT !.Ref = h[n].Ref]]

assign(h, n, t) == [h EXCEPT ![n] = h[t]]

Result(h, e) == [heap |-> h, err |-> e]

RECURSIVE resolveRefs(_, _, _, _, _)
RECURSIVE resolveRefsEach(_, _, _, _, _)
resolveRefsEach(S, h, nodes, ord, depth) ==
    IF nodes = <<>> THEN Result(h, "nil")
    ELSE LET r == resolveRefs(S, h, Head(nodes), ord, depth)
         IN  IF r.err # "nil" THEN r
             ELSE resolveRefsEach(S, r.heap, Tail(nodes), ord, depth)

\* depth counts the calls of resolveRefs on the stack
resolveRefs(S, h, n, ord, depth) ==
    IF depth > StackLimit THEN Result(h, "stack overflow")
    ELSE
    LET own ==
            IF h[n].Ref = <<>> THEN Result(h, "nil")
            ELSE LET ctx == walk(S, h, SchemaCtx(n), Split(h[n].Ref))
                 IN  IF ctx.stop # "nil" THEN Result(h, ctx.stop)
                     ELSE IF ctx.kind = "schema" /\ ctx.id = 0 THEN Result(h, "panic")
                     ELSE resolveRefs(S, IF ctx.kind = "schema" THEN assign(h, n, ctx.id) ELSE h,
                                      n, ord, depth + 1)
    IN  IF own.err # "nil" THEN own
        ELSE resolveRefsEach(S, own.heap, Children(own.heap[n], ord), ord, depth + 1)

----------------------------------------------------------------------------
(* setTitle *)

anonymousNameNoCount(count) == sAnonymousObject

\* fmt.Sprintf("AnonymousObject%v", anonymousObjectCount)
anonymousName(count) == sAnonymousObject \o Itoa(count)

Titled(h, c) == [heap |-> h, count |-> c]

RECURSIVE setTitle(_, _, _, _)
RECURSIVE setTitleRange(_, _, _, _)
\* lines 374-379, and the same loop over Properties and PatternProperties
setTitleRange(t, mp, keys, ord) ==
    IF keys = <<>> THEN t
    ELSE LET k == Head(keys)
             v == mp.m[k]
             h1 == IF Name(t.heap[v]) = <<>> THEN [t.heap EXCEPT ![v].Title = k] ELSE t.heap
         IN  setTitleRange(setTitle(h1, t.count, v, ord), mp, Tail(keys), ord)

\* lines 397-406
setTitleItems(t, n, ord) ==
    LET h == t.heap
        items == h[n].Items
    IN  IF items = 0 THEN t
        ELSE IF Name(h[items]) # <<>> THEN setTitle(h, t.count, items, ord)
        ELSE LET anonymous == Name(h[n]) = <<>>
                 c1 == IF anonymous THEN t.count + 1 ELSE t.count
                 h1 == IF anonymous THEN [h EXCEPT ![n].Title = anonymousName(c1)] ELSE h
                 h2 == [h1 EXCEPT ![items].Title = Name(h1[n]) \o sItem]
             IN  setTitle(h2, c1, items, ord)

setTitle(h, count, n, ord) ==
    LET t1 == setTitleRange(Titled(h, count), h[n].Definitions,
                            Range(h[n].Definitions, ord), ord)
        t2 == setTitleRange(t1, h[n].Properties, Range(h[n].Properties, ord), ord)
        t3 == setTitleRange(t2, h[n].PatternProperties,
                            Range(h[n].PatternProperties, ord), ord)
    IN  setTitleItems(t3, n, ord)

----------------------------------------------------------------------------
(* camelCase and sort.Strings *)

camelCase(name) ==
    LET caseName == RemoveSpaces(Title(MapAlnum(name)))
        suffix == SelectSeq(<<sId, sUrl, sJson, sXml>>, LAMBDA x : HasSuffix(caseName, x))
        prefix == SelectSeq(<<sUrl, sJson, sXml>>, LAMBDA p : HasPrefix(caseName, p))
    IN  IF suffix # <<>> THEN TrimSuffix(caseName, suffix[1]) \o ToUpper(suffix[1])
        ELSE IF prefix # <<>> THEN ToUpper(prefix[1]) \o TrimPrefix(caseName, prefix[1])
        ELSE caseName

\* sort.Strings, as an insertion sort
RECURSIVE insertSorted(_, _)
insertSorted(sorted, k) ==
    IF sorted = <<>> THEN <<k>>
    ELSE IF LexLess(k, Head(sorted)) THEN <<k>> \o sorted
    ELSE <<Head(sorted)>> \o insertSorted(Tail(sorted), k)

RECURSIVE sortStringsFrom(_, _)
sortStringsFrom(sorted, keys) ==
    IF keys = <<>> THEN sorted
    ELSE sortStringsFrom(insertSorted(sorted, Head(keys)), Tail(keys))

unsortedStrings(keys) == keys

sortStrings(keys) == sortStringsFrom(<<>>, keys)

----------------------------------------------------------------------------
(* writeGoCode *)

\* the declaration text.  Every fmt.Sprintf of processSchema fills a fixed
\* template, so the text is kept as the values that fill it: the kind of
\* declaration, the type name, the element type of a map or slice, and per
\* struct field <<Go name, Go type, JSON key>>.  Comments are off
\* (-comments=false): structComment returns "".
StructCode(typeName, fields) ==
    [decl |-> "struct", name |-> typeName, elem |-> <<>>, fields |-> fields]

MapCode(typeName, subTypeName) ==
    [decl |-> "map", name |-> typeName, elem |-> subTypeName, fields |-> <<>>]

SliceCode(typeName, subTypeName) ==
    [decl |-> "slice", name |-> typeName, elem |-> subTypeName, fields |-> <<>>]

\* the sink: what was asked for, what was written, the cache, the directory
Sink(p, w, r, d) == [processed |-> p, written |-> w, requests |-> r, disk |-> d]

\* how the operating system and gofmt answer one write
IOs == {"ok", "open fails", "write fails", "gofmt fails"}

neverSeen(p, typeName) == FALSE

\* line 533
seen(p, typeName) == typeName \in Keys(p) /\ p.m[typeName]

\* lines 537-543
mark(p, typeName) == MapOf((typeName :> TRUE) @@ p.m)

goFile(typeName) == typeName \o <<".", "g", "o">>

Wrote(s, e) == [sink |-> s, err |-> e]

writeGoCode(s, c, typeName, code, io) ==
    LET asked == [s EXCEPT !.requests = Append(@, <<typeName, code>>)]
        marked == [asked EXCEPT !.processed = mark(@, typeName)]
        out == [marked EXCEPT !.written = Append(@, <<typeName, code>>)]
        file == goFile(typeName)
    IN  IF seen(s.processed, typeName) THEN Wrote(asked, "nil")
        ELSE IF c.Stdout THEN
            IF c.Fmt THEN
                IF io = "gofmt fails" THEN Wrote(marked, "gofmt fails") ELSE Wrote(out, "nil")
            ELSE Wrote(out, "nil")
        ELSE IF ~c.Overwrite /\ file \in s.disk THEN Wrote(marked, "nil")
        ELSE IF io = "open fails" THEN Wrote(marked, "open fails")
        ELSE IF io = "write fails" THEN
            Wrote([marked EXCEPT !.disk = @ \cup {file}], "write fails")
        ELSE IF c.Fmt /\ io = "gofmt fails" THEN
            Wrote([out EXCEPT !.disk = @ \cup {file}], "gofmt fails")
        ELSE Wrote([out EXCEPT !.disk = @ \cup {file}], "nil")

----------------------------------------------------------------------------
(* processSchema *)

Typed(t, s, e) == [typeName |-> t, sink |-> s, err |-> e]

\* strings.Title(subTypeName) == subTypeName: "not a simple type"
isNamed(subTypeName) == Title(subTypeName) = subTypeName

RECURSIVE processSchema(_, _, _, _, _, _)
RECURSIVE processProperties(_, _, _, _, _, _, _, _)
RECURSIVE processPatternProperties(_, _, _, _, _, _, _, _)

\* lines 453-460: the loop over the sorted keys, fields being typeData so far
processProperties(h, n, keys, fields, s, c, io, ord) ==
    IF keys = <<>> THEN Typed(fields, s, "nil")
    ELSE LET k == Head(keys)
             sub == processSchema(h, h[n].Properties.m[k], s, c, io, ord)
         IN  IF sub.err # "nil" THEN Typed(<<>>, sub.sink, sub.err)
             ELSE processProperties(h, n, Tail(keys),
                                    Append(fields, <<camelCase(k), sub.typeName, k>>),
                                    sub.sink, c, io, ord)

\* lines 472-489
processPatternProperties(h, n, keys, typeName, s, c, io, ord) ==
    IF keys = <<>> THEN Typed(typeName, s, "nil")
    ELSE LET k == Head(keys)
             sub == processSchema(h, h[n].PatternProperties.m[k], s, c, io, ord)
             mapName == TrimPrefix(sub.typeName \o sMap, sStar)
             w == writeGoCode(sub.sink, c, mapName, MapCode(mapName, sub.typeName), io)
         IN  IF sub.err # "nil" THEN Typed(<<>>, sub.sink, sub.err)
             ELSE IF isNamed(sub.typeName) THEN
                 IF w.err # "nil" THEN Typed(<<>>, w.sink, w.err)
                 ELSE processPatternProperties(h, n, Tail(keys), mapName, w.sink, c, io, ord)
             ELSE processPatternProperties(h, n, Tail(keys), sMapString \o sub.typeName,
                                           sub.sink, c, io, ord)

processObject(h, n, s, c, io, ord) ==
    LET typeName == camelCase(Name(h[n]))
    IN  IF ~h[n].Properties.nil THEN
            LET keys == sortStrings(Range(h[n].Properties, ord))
                body == processProperties(h, n, keys, <<>>, s, c, io, ord)
                w == writeGoCode(body.sink, c, typeName, StructCode(typeName, body.typeName), io)
            IN  IF body.err # "nil" THEN body
                ELSE IF w.err # "nil" THEN Typed(<<>>, w.sink, w.err)
                ELSE Typed(sStar \o typeName, w.sink, "nil")
        ELSE IF ~h[n].PatternProperties.nil THEN
            processPatternProperties(h, n, sortStrings(Range(h[n].PatternProperties, ord)),
                                     typeName, s, c, io, ord)
        ELSE Typed(sMapStringInterface, s, "nil")

processArray(h, n, s, c, io, ord) ==
    IF h[n].Items = 0 THEN Typed(<<>>, s, "panic")
    ELSE
    LET sub == processSchema(h, h[n].Items, s, c, io, ord)
        own == camelCase(Name(h[n]))
        plural == IF HasSuffix(sub.typeName, sS) THEN sub.typeName \o sEs
                  ELSE sub.typeName \o sS
        typeName == IF own = <<>> /\ isNamed(sub.typeName) THEN plural ELSE own
        sliceName == TrimPrefix(typeName, sStar)
        w == writeGoCode(sub.sink, c, sliceName, SliceCode(sliceName, sub.typeName), io)
    IN  IF sub.err # "nil" THEN Typed(<<>>, sub.sink, sub.err)
        ELSE IF typeName # <<>> THEN
            IF w.err # "nil" THEN Typed(<<>>, w.sink, w.err)
            ELSE Typed(sliceName, w.sink, "nil")
        ELSE Typed(sSlice \o sub.typeName, sub.sink, "nil")

processSchema(h, n, s, c, io, ord) ==
    CASE h[n].Type = "OBJECT" -> processObject(h, n, s, c, io, ord)
      [] h[n].Type = "ARRAY" -> processArray(h, n, s, c, io, ord)
      [] h[n].Type = "BOOLEAN" -> Typed(sBool, s, "nil")
      [] h[n].Type = "INTEGER" -> Typed(sInt, s, "nil")
      [] h[n].Type = "NUMBER" -> Typed(sFloat64, s, "nil")
      [] h[n].Type \in {"NULL", "ANY"} -> Typed(sInterface, s, "nil")
      [] h[n].Type = "STRING" -> Typed(sString, s, "nil")

----------------------------------------------------------------------------
(* Process *)

\* ParseSchema: resolveRefs, then setTitle when it returned no error
ParseSchema(S, h, count, root, ord) ==
    LET r == resolveRefs(S, h, root, ord, 1)
        t == setTitle(r.heap, count, root, ord)
    IN  IF r.err # "nil" THEN [heap |-> r.heap, count |-> count, err |-> r.err]
        ELSE [heap |-> t.heap, count |-> t.count, err |-> "nil"]

\* one round of the first loop of Process (lines 223-229): the range over
\* s.schemas yields any key it has not yielded yet
ParseStep ==
    /\ pc = "parse"
    /\ \E key \in toParse, ord \in Orders :
        LET p == ParseSchema(schemas, heap, anonymousObjectCount, schemas[key], ord)
        IN  /\ heap' = p.heap
            /\ anonymousObjectCount' = p.count
            /\ err' = (IF p.err = "nil" THEN err ELSE p.err)
            /\ toParse' = (IF p.err = "nil" THEN toParse \ {key} ELSE toParse)
            /\ targetSchemas' =
                 (IF p.err = "nil" THEN Append(targetSchemas, schemas[key]) ELSE targetSchemas)
            /\ pc' = (IF p.err # "nil" THEN "failed"
                      ELSE IF toParse = {key} THEN "emit" ELSE "parse")
    /\ UNCHANGED <<input, schemas, emitIdx, cfg, disk, processed, written, requests>>

\* one round of the second loop of Process (lines 230-235)
EmitStep ==
    /\ pc = "emit"
    /\ \E io \in IOs, ord \in Orders :
        LET r == processSchema(heap, targetSchemas[emitIdx],
                               Sink(processed, written, requests, disk), cfg, io, ord)
        IN  /\ processed' = r.sink.processed
            /\ written' = r.sink.written
            /\ requests' = r.sink.requests
            /\ disk' = r.sink.disk
            /\ err' = (IF r.err = "nil" THEN err ELSE r.err)
            /\ emitIdx' = (IF r.err = "nil" THEN emitIdx + 1 ELSE emitIdx)
            /\ pc' = (IF r.err # "nil" THEN "failed"
                      ELSE IF emitIdx = Len(targetSchemas) THEN "done" ELSE "emit")
    /\ UNCHANGED <<input, schemas, heap, toParse, targetSchemas, anonymousObjectCount, cfg>>

Init ==
    /\ input \in Inputs
    /\ pc = "load"
    /\ err = "nil"
    /\ schemas = <<>>
    /\ heap = <<>>
    /\ toParse = {}
    /\ targetSchemas = <<>>
    /\ emitIdx = 1
    /\ anonymousObjectCount = 0
    /\ cfg = [Stdout |-> FALSE, Fmt |-> TRUE, Overwrite |-> TRUE]
    /\ disk = {}
    /\ processed = NilMap
    /\ written = <<>>
    /\ requests = <<>>

Next == Load \/ ParseStep \/ EmitStep

Spec == Init /\ [][Next]_vars

----------------------------------------------------------------------------
(* The sink alone: any sequence of calls of writeGoCode on one              *)
(* SchemaProcessor, under every setting of the flags                        *)

EmitNames == {kWidget, kTag}

EmitCodes(typeName) == {StructCode(typeName, <<>>), SliceCode(typeName, sString)}

InitEmit ==
    /\ input = [files |-> <<"C">>, rB |-> refWidget, rD |-> refWidget, tB |-> <<>>]
    /\ pc = "sink"
    /\ err = "nil"
    /\ schemas = <<>>
    /\ heap = <<>>
    /\ toParse = {}
    /\ targetSchemas = <<>>
    /\ emitIdx = 1
    /\ anonymousObjectCount = 0
    /\ cfg \in [Stdout : BOOLEAN, Fmt : BOOLEAN, Overwrite : BOOLEAN]
    /\ disk \in SUBSET {goFile(t) : t \in EmitNames}
    /\ processed = NilMap
    /\ written = <<>>
    /\ requests = <<>>

WriteRequest ==
    /\ pc = "sink"
    /\ Len(requests) < MaxRequests
    /\ \E typeName \in EmitNames, io \in IOs :
        \E code \in EmitCodes(typeName) :
            LET w == writeGoCode(Sink(processed, written, requests, disk), cfg,
                                 typeName, code, io)
            IN  /\ processed' = w.sink.processed
                /\ written' = w.sink.written
                /\ requests' = w.sink.requests
                /\ disk' = w.sink.disk
                /\ err' = w.err
    /\ UNCHANGED <<input, pc, schemas, heap, toParse, targetSchemas, emitIdx,
                   anonymousObjectCount, cfg>>

NextEmit == WriteRequest

SpecEmit == InitEmit /\ [][NextEmit]_vars

----------------------------------------------------------------------------
(* Claims about the sink *)

LastRequest(r) == r[Len(r)]

\* the code of the first request for the name of the i-th written declaration
FirstRequested(i) ==
    LET first == CHOOSE j \in 1..Len(requests) :
                    /\ requests[j][1] = written[i][1]
                    /\ \A k \in 1..(j - 1) : requests[k][1] # written[i][1]
    IN  requests[first][2]

WrittenOnce ==
    /\ \A i, j \in 1..Len(written) : written[i][1] = written[j][1] => i = j
    /\ \A i \in 1..Len(written) :
        /\ \E j \in 1..Len(requests) : requests[j][1] = written[i][1]
        /\ written[i][2] = FirstRequested(i)

\* C1: over any sequence of calls of writeGoCode on one SchemaProcessor, a
\* call for a name the cache already marks returns nil and writes nothing
\* (written, the cache and the directory stay as they are), a call for a new
\* name marks it and writes at most its own declaration, and so every name
\* is written at most once, with the code of the first request for it.
C1_WrittenAtMostOnce ==
    [][Len(requests') = Len(requests) + 1 =>
        /\ seen(processed, LastRequest(requests')[1]) =>
            /\ err' = "nil"
            /\ written' = written
            /\ processed' = processed
            /\ disk' = disk
        /\ ~seen(processed, LastRequest(requests')[1]) =>
            written' \in {written, Append(written, LastRequest(requests'))}
        /\ seen(processed', LastRequest(requests')[1])
        /\ WrittenOnce']_vars

\* a name was requested twice with two different codes, and was written
C1_Witness ==
    \E i, j \in 1..Len(requests) :
        /\ i < j
        /\ requests[i][1] = requests[j][1]
        /\ requests[i][2] # requests[j][2]
        /\ \E w \in 1..Len(written) : written[w] = requests[i]

----------------------------------------------------------------------------
(* Claims about Load *)

\* Load has returned and Process has not touched anything yet
JustLoaded == pc = "parse" /\ targetSchemas = <<>>

\* the reference key the file was loaded under
KeyOf(f) == CHOOSE K \in DOMAIN schemas : schemas[K] = FileRoot(f)

FirstSegmentIsHash(ref) == ref = sHash \/ HasPrefix(ref, sHash \o sSlash)

Requalified(f) == updateReferencePath(heap, FileRoot(f), KeyOf(f)) = heap

----------------------------------------------------------------------------
(* Claims about resolveRefs *)

\* where the walk of the reference of n ends
Target(S, h, n) == walk(S, h, SchemaCtx(n), Split(h[n].Ref))

\* the reference of n leads to a node
Resolves(S, h, n) ==
    /\ h[n].Ref # <<>>
    /\ Target(S, h, n).stop = "nil"
    /\ Target(S, h, n).kind = "schema"
    /\ Target(S, h, n).id # 0

\* the nodes the resolution of n goes on to: the node a reference leads to
\* (the node itself when the walk ends on a map and nothing is copied), the
\* children of a node without a reference
Follows(S, h, n) ==
    IF h[n].Ref = <<>> THEN ChildSet(h[n])
    ELSE IF Target(S, h, n).stop # "nil" THEN {}
    ELSE IF Target(S, h, n).kind = "map" THEN {n}
    ELSE IF Target(S, h, n).id = 0 THEN {}
    ELSE {Target(S, h, n).id}

RECURSIVE FollowedFrom(_, _, _, _)
FollowedFrom(S, h, done, frontier) ==
    IF frontier = {} THEN done
    ELSE LET next == UNION {Follows(S, h, m) : m \in frontier} \ (done \cup frontier)
         IN  FollowedFrom(S, h, done \cup frontier, next)

\* no node the resolution of n can come to is resolved through itself
NoCycle(S, h, n) ==
    \A m \in FollowedFrom(S, h, {}, {n}) :
        m \notin FollowedFrom(S, h, {}, Follows(S, h, m))

\* the number of references from n to the node without one that ends the
\* chain; MaxChain + 1 when the chain is longer or is broken
RECURSIVE ChainLength(_, _, _, _)
ChainLength(S, h, n, left) ==
    IF h[n].Ref = <<>> THEN 0
    ELSE IF left = 0 \/ ~Resolves(S, h, n) THEN MaxChain + 1
    ELSE LET rest == ChainLength(S, h, Target(S, h, n).id, left - 1)
         IN  IF rest > MaxChain THEN rest ELSE rest + 1

StartsChain(S, h, n) ==
    /\ h[n].Ref # <<>>
    /\ NoCycle(S, h, n)
    /\ ChainLength(S, h, n, MaxChain) <= MaxChain

\* C3: in every heap the run reaches, resolveRefs called on a node whose
\* reference starts a chain of at most MaxChain references without a cycle
\* ends (the recursion is bounded), and whenever it returns, with or without
\* an error, the Ref field of the node is empty.
C3_ChainResolves ==
    \A n \in DOMAIN heap :
        StartsChain(schemas, heap, n) =>
            \A ord \in Orders :
                LET r == resolveRefs(schemas, heap, n, ord, 1)
                IN  /\ r.err # "stack overflow"
                    /\ (r.err # "panic" => r.heap[n].Ref = <<>>)

\* b.json was resolved first: w led through Alias2 and Alias, both still
\* unresolved, to Widget, and now holds the object with an empty Ref
C3_Witness ==
    /\ pc = "parse"
    /\ Has(input.files, "A2")
    /\ Has(input.files, "B1")
    /\ input.rB = refAlias2
    /\ targetSchemas = <<21>>
    /\ ChainLength(schemas, Loaded(input).heap, 22, MaxChain) = MaxChain
    /\ heap[16].Ref # <<>>
    /\ heap[22].Ref = <<>>
    /\ heap[22].Type = "OBJECT"

\* the walk of the reference of n comes to a map that lacks the next segment
MissingKey(S, h, n) ==
    /\ h[n].Ref # <<>>
    /\ \E i \in 1..Len(Split(h[n].Ref)) :
        LET part == Split(h[n].Ref)[i]
            ctx == walk(S, h, SchemaCtx(n), SubSeq(Split(h[n].Ref), 1, i - 1))
        IN  /\ ctx.stop = "nil"
            /\ ctx.kind = "map"
            /\ ~HasSuffix(part, sHash)
            /\ part \notin {sDefinitions, sProperties, sPatternProperties, sItems}
            /\ part \notin Keys(ctx.mp)

\* C5: when the walk of a reference comes to a definitions, properties or
\* patternProperties map that lacks the next segment, resolveRefs returns
\* without an error.
C5_SilentNil ==
    \A n \in DOMAIN heap :
        MissingKey(schemas, heap, n) =>
            \A ord \in Orders : resolveRefs(schemas, heap, n, ord, 1).err = "nil"

\* the nodes of the loaded files whose reference, as Load left it, leads to
\* another node, and which resolveRefs has resolved since
ResolvedRefs ==
    {n \in DOMAIN heap :
        /\ Resolves(schemas, Loaded(input).heap, n)
        /\ Target(schemas, Loaded(input).heap, n).id # n
        /\ heap[n].Ref = <<>>}

\* C2: a resolved $ref node shares nothing with the node it was resolved
\* to: no node below the one is a node of the other, so that no change made
\* through either can show in the other.
C2_SharesNothing ==
    \A n \in ResolvedRefs :
        LET t == Target(schemas, Loaded(input).heap, n).id
        IN  (UNION {Reach(heap, c) : c \in ChildSet(heap[n])}) \cap Reach(heap, t) = {}

----------------------------------------------------------------------------
(* Claims about Process *)

\* a segment of the reference is a bare "#" or names a document not loaded
BadReference(S, ref) ==
    \E i \in 1..Len(Split(ref)) :
        LET part == Split(ref)[i]
        IN  \/ part = sHash
            \/ /\ HasSuffix(part, sHash)
               /\ SubSeq(part, 1, Len(part) - 1) \notin DOMAIN S

\* the nodes of the loaded files, as Load left them, that hold such a reference
BadNodes == {n \in DOMAIN Loaded(input).heap :
                BadReference(Loaded(input).schemas, Loaded(input).heap[n].Ref)}

\* n lies below a node of its file that holds a reference itself
BelowReference(n) ==
    \E m \in DOMAIN Loaded(input).heap :
        /\ Loaded(input).heap[m].Ref # <<>>
        /\ m # n
        /\ n \in Reach(Loaded(input).heap, m)

ReferenceErrors == {"invalid reference point", "invalid reference file"}

\* C4 as stated, read in its favour (a run cut short by a panic counts as
\* failed): with such a reference anywhere in a loaded document, Process
\* never comes to emit anything and does not end without an error.
C4_Original ==
    BadNodes # {} =>
        /\ pc \notin {"emit", "done"}
        /\ written = <<>>

\* C4 as amended: with such a reference in a loaded document, at any depth
\* but not below a node that holds a reference itself (resolution replaces
\* the children of that node), Process never reaches its second loop and
\* nothing is requested or written for any document; the run ends with the
\* error resolveRefs returns, unless it is cut short by a panic of the walk
\* of a path or by a recursion that does not end.
C4_BadReferenceFails ==
    (\E n \in BadNodes : ~BelowReference(n)) =>
        /\ pc \notin {"emit", "done"}
        /\ pc = "failed" => err \in ReferenceErrors \cup {"panic", "stack overflow"}
        /\ written = <<>>
        /\ requests = <<>>
        /\ disk = {}

\* d.json holds "zz#/definitions/Widget" below properties, items and
\* patternProperties; a.json was resolved and named before Process failed
C4_Witness ==
    /\ input.files = <<"A2", "D">>
    /\ input.rD = refNoFile
    /\ targetSchemas = <<11>>
    /\ pc = "failed"
    /\ err = "invalid reference file"
    /\ written = <<>>

\* Process from a given position on, as one computation
RECURSIVE ParseAll(_, _, _, _, _)
ParseAll(S, h, count, keys, ord) ==
    IF keys = <<>> THEN [heap |-> h, count |-> count, err |-> "nil", targets |-> <<>>]
    ELSE LET p == ParseSchema(S, h, count, S[Head(keys)], ord)
             rest == ParseAll(S, p.heap, p.count, Tail(keys), ord)
         IN  IF p.err # "nil"
             THEN [heap |-> p.heap, count |-> p.count, err |-> p.err, targets |-> <<>>]
             ELSE [rest EXCEPT !.targets = <<S[Head(keys)]>> \o @]

RECURSIVE EmitAll(_, _, _, _, _)
EmitAll(h, targets, s, c, ord) ==
    IF targets = <<>> THEN Typed(<<>>, s, "nil")
    ELSE LET r == processSchema(h, Head(targets), s, c, "ok", ord)
         IN  IF r.err # "nil" THEN r ELSE EmitAll(h, Tail(targets), r.sink, c, ord)

\* the result of Process when its first loop visits the keys in this order
Process(inp, keys, ord) ==
    LET p == ParseAll(Loaded(inp).schemas, Loaded(inp).heap, 0, keys, ord)
        e == EmitAll(p.heap, p.targets, Sink(NilMap, <<>>, <<>>, {}), cfg, ord)
    IN  IF p.err # "nil" THEN [err |-> p.err, written |-> <<>>]
        ELSE [err |-> e.err, written |-> e.sink.written]

RECURSIVE Sequences(_)
Sequences(S) ==
    IF S = {} THEN {<<>>}
    ELSE UNION {{<<k>> \o s : s \in Sequences(S \ {k})} : k \in S}

Emitted(w) == {w[i] : i \in 1..Len(w)}

\* C10: when Process has returned without an error, the set of (type name,
\* declaration) pairs it wrote is the set it writes under every other order
\* in which its first loop can visit the documents.
C10_OrderIndependent ==
    pc = "done" =>
        \A keys \in Sequences(DOMAIN schemas) : \A ord \in Orders :
            /\ Process(input, keys, ord).err = "nil"
            /\ Emitted(Process(input, keys, ord).written) = Emitted(written)

anonymousObject1 == sAnonymousObject \o <<"1">>

\* C6 as stated: c.json alone gives []string and no declaration.
C6_Original ==
    (input.files = <<"C">> /\ pc = "done") =>
        /\ written = <<>>
        /\ \A ord \in Orders :
            processSchema(heap, 31, Sink(NilMap, <<>>, <<>>, {}), cfg, "ok", ord).typeName
                = sSlice \o sString

\* C6 as amended: run on c.json alone (an array without a title whose items
\* are {"type": "string"}), the pipeline names the array AnonymousObject1,
\* synthesis returns the type reference AnonymousObject1, and exactly one
\* declaration is written: the slice AnonymousObject1 of string.
C6_AnonymousArrayDeclared ==
    (input.files = <<"C">> /\ pc = "done") =>
        /\ written = << <<anonymousObject1, SliceCode(anonymousObject1, sString)>> >>
        /\ \A ord \in Orders :
            processSchema(heap, 31, Sink(NilMap, <<>>, <<>>, {}), cfg, "ok", ord).typeName
                = anonymousObject1

C6_Witness ==
    /\ input.files = <<"C">>
    /\ pc = "done"
    /\ heap[31].Title = anonymousObject1
    /\ Len(written) = 1

WidgetStruct ==
    StructCode(kWidget, << <<<<"C", "o", "u", "n", "t">>, sInt, kCount>>,
                           <<<<"I", "D">>, sString, kId>> >>)

RootStruct(typeName) == StructCode(typeName, << <<<<"W">>, sStar \o kWidget, kW>> >>)

SinkErrors == {"open fails", "write fails", "gofmt fails"}

\* C7 as stated: with a.json and b.json, b.json referring to
\* "a#/definitions/Widget", Load and Process succeed and the declarations
\* written are Widget and B.
C7_Original ==
    (input.files = <<"A1", "B1">> /\ input.rB = refShortWidget) =>
        /\ pc = "failed" => err \in SinkErrors
        /\ pc = "done" => {written[i][1] : i \in 1..Len(written)} = {kWidget, titleB}

\* C7 as amended: the documents are keyed by file name, extension included.
\* With the reference written "a#/definitions/Widget" Process fails with the
\* invalid-reference-file error and nothing is emitted.  With it written
\* "a.json#/definitions/Widget" resolution succeeds in either order of the two
\* documents, and a Process that ends without an error of the sink has
\* written exactly two declarations: Widget with the fields Count int and
\* ID string, in this order, then the root of b.json with the field
\* W *Widget, which is named B when b.json has the title B and has the empty
\* name when it has none.
C7_TwoDeclarations ==
    /\ (input.files = <<"A1", "B1">> /\ input.rB = refShortWidget) =>
        /\ pc \notin {"emit", "done"}
        /\ pc = "failed" => err = "invalid reference file"
        /\ written = <<>>
    /\ (input.files = <<"A1", "B1">> /\ input.rB = refWidget) =>
        /\ pc = "failed" => err \in SinkErrors
        /\ pc = "done" =>
            written = << <<kWidget, WidgetStruct>>, <<input.tB, RootStruct(input.tB)>> >>

C7_Witness ==
    /\ input.files = <<"A1", "B1">>
    /\ input.rB = refWidget
    /\ input.tB = titleB
    /\ pc = "done"
    /\ targetSchemas = <<21, 1>>
    /\ Len(written) = 2

StrictlyAscending(keys) ==
    \A a, b \in 1..Len(keys) : a < b => LexLess(keys[a], keys[b])

FieldKeys(code) == [i \in 1..Len(code.fields) |-> code.fields[i][3]]

\* what synthesis of the node n alone asks the sink for, in order
RequestsOf(n, ord) ==
    processSchema(heap, n, Sink(NilMap, <<>>, <<>>, {}), cfg, "ok", ord).sink.requests

RECURSIVE RequestsOfProperties(_, _, _)
RequestsOfProperties(n, keys, ord) ==
    IF keys = <<>> THEN <<>>
    ELSE RequestsOf(heap[n].Properties.m[Head(keys)], ord)
         \o RequestsOfProperties(n, Tail(keys), ord)

ObjectsToEmit ==
    {n \in UNION {Reach(heap, targetSchemas[i]) : i \in 1..Len(targetSchemas)} :
        heap[n].Type = "OBJECT" /\ ~heap[n].Properties.nil}

\* C9: the fields of every struct declaration asked for are in the strictly
\* ascending byte order of their property keys, whichever way the property
\* map is iterated; and synthesis of an object with properties asks for the
\* declarations of its properties key by key in that order, then, last, for
\* the struct itself, which has one field per property.
C9_FieldOrder ==
    /\ \A i \in 1..Len(requests) :
        requests[i][2].decl = "struct" => StrictlyAscending(FieldKeys(requests[i][2]))
    /\ pc \in {"emit", "done"} =>
        \A n \in ObjectsToEmit : \A ord \in Orders :
            LET keys == Ascending(Keys(heap[n].Properties))
                asked == RequestsOf(n, ord)
            IN  /\ asked # <<>>
                /\ asked[Len(asked)][2].decl = "struct"
                /\ asked[Len(asked)][1] = camelCase(Name(heap[n]))
                /\ FieldKeys(asked[Len(asked)][2]) = keys
                /\ SubSeq(asked, 1, Len(asked) - 1) = RequestsOfProperties(n, keys, ord)

\* the struct B was asked for after Widget, the type of its property, and
\* Widget has its two fields in key order
C9_Witness ==
    /\ pc = "done"
    /\ input.rB = refWidget
    /\ \E i, j \in 1..Len(requests) :
        /\ i < j
        /\ requests[i][1] = kWidget
        /\ FieldKeys(requests[i][2]) = <<kCount, kId>>
        /\ requests[j][1] = titleB
====
